---- MODULE Spec2Model ----
(***************************************************************************)
(* Batch validation and sequential issuance pipeline of the certificate   *)
(* issuance backend: BatchService.processZipFile, the start-issuance      *)
(* route and CertificateIssuanceService (startBatchProcessing,            *)
(* processCertificate, retry / reissue / republish and the bulk variants), *)
(* ProjectService.deleteProject, and the end of the process.               *)
(*                                                                         *)
(* Every `await` on the record store is one atomic step: the write is     *)
(* applied and the synchronous continuation up to the next await runs.    *)
(* A record-store call may fail (the *Fault actions); the number of       *)
(* failures in one behaviour is bounded by MaxStoreFaults.                *)
(***************************************************************************)
EXTENDS Integers, Sequences, FiniteSets, TLC

\* ------------------------------------------------------------------ bounds
MaxStartRequests == 2      \* start-issuance requests in one behaviour
MaxReprocess == 2          \* retry / reissue calls (each schedules one timer)
MaxStoreFaults == 2        \* record-store calls that fail
MaxClock == 3              \* distinct values of new Date()
MaxRepublish == 1          \* republish calls
MaxTotalCerts == 12        \* largest argument of calculateBatchBreakdown
MaxBatchSize == 5          \* largest configured BATCH_SIZE
MaxRows == 3               \* rows of an uploaded manifest
MaxHeaderRows == 2         \* rows of a manifest with other header cells

\* ---------------------------------------------------------------- universe
BatchIds == {"b1", "b2"}
RowIdx == {1, 2}
CertIds == BatchIds \X RowIdx
RunIds == 1..MaxStartRequests
JobIds == 1..MaxReprocess

Undefined == <<>>
Some(v) == <<v>>

\* An uploaded ZIP: the header cells and the data rows of its Excel file (the
\* file has the same name in every ZIP) and its PDF entries.
Row(id, f) == [certificateId |-> id, filename |-> f]
Pdf(f, k) == [filename |-> f, kind |-> k]
Columns(i, f) == [certificateId |-> i, filename |-> f]
CamelColumns == Columns("certificateId", "filename")
SnakeColumns == Columns("certificate_id", "file_name")
NoUpload == [columns |-> CamelColumns, rows |-> <<>>, pdfs |-> {}]

\* The uploads of the end-to-end scenarios: a manifest of two rows with both
\* PDFs, with the first PDF unreadable, and with the second PDF missing.
ValidUpload ==
  [columns |-> CamelColumns,
   rows |-> <<Row("C1", "a.pdf"), Row("C2", "b.pdf")>>,
   pdfs |-> {Pdf("a.pdf", "ok"), Pdf("b.pdf", "ok")}]

CorruptUpload ==
  [columns |-> CamelColumns,
   rows |-> <<Row("C1", "a.pdf"), Row("C2", "b.pdf")>>,
   pdfs |-> {Pdf("a.pdf", "corrupt"), Pdf("b.pdf", "ok")}]

MissingUpload ==
  [columns |-> CamelColumns,
   rows |-> <<Row("C1", "a.pdf"), Row("C2", "b.pdf")>>,
   pdfs |-> {Pdf("a.pdf", "ok")}]

Uploads == {ValidUpload, CorruptUpload, MissingUpload}

\* A valid upload that shares no filename with the others.
OtherUpload ==
  [columns |-> CamelColumns,
   rows |-> <<Row("C1", "x.pdf")>>,
   pdfs |-> {Pdf("x.pdf", "ok")}]

OverlapUploads == {ValidUpload, MissingUpload, OtherUpload}

\* Every manifest of at most MaxRows rows, "" being an empty cell, with every
\* set of PDF entries.
CertificateIdCells == {"C1", "C2", ""}
FilenameCells == {"a.pdf", "b.pdf", ""}
ZipPdfNames == {"a.pdf", "b.pdf", "x.pdf"}

Manifests ==
  UNION {[1..n -> [certificateId : CertificateIdCells,
                   filename : FilenameCells]] : n \in 0..MaxRows}

AllUploads ==
  {[columns |-> CamelColumns, rows |-> m, pdfs |-> {Pdf(f, "ok") : f \in F}] :
     m \in Manifests, F \in SUBSET ZipPdfNames}

\* The header cells the column lookup of the validator names, in every
\* combination, over the manifests of at most MaxHeaderRows rows.
HeaderUploads ==
  {[u EXCEPT !.columns = Columns(i, f)] :
     u \in {a \in AllUploads : Len(a.rows) <= MaxHeaderRows},
     i \in {"certificateId", "certificate_id"},
     f \in {"filename", "file_name"}}

\* The worksheet of the ZIP's Excel file: the header cells of the two
\* columns and the data rows.
ManifestOf(u) == [columns |-> u.columns, rows |-> u.rows]

ZipPdfsOf(u) == u.pdfs

\* ------------------------------------------------------------------- state
VARIABLES
  qrCoordinates,      \* the project has a QR placement
  batch,              \* Batch records, by batch id
  cert,               \* Certificate records, by record id <<batch, row>>
  extractedDir,       \* files in uploads/projects/<p>/batches/extracted
  batchDir,           \* files in uploads/projects/<p>/batches/<zip name>/
  upload,             \* processZipFile calls and their locals, by batch id
  processingBatches,  \* CertificateIssuanceService.processingBatches
  run,                \* start-issuance requests and their drain runs
  job,                \* setTimeout callbacks scheduled by retry / reissue
  bulk,               \* the last bulk retry / reissue call, what is left of it
  events,             \* events emitted, counted per batch
  certEvents,         \* certificate events emitted, counted per certificate
  now,                \* the clock read by new Date()
  faults,             \* record-store failures so far
  republished,        \* republish calls so far, and the one in flight
  breakdown,          \* the calculateBatchBreakdown call and what it returned
  rejected,           \* operator calls answered with an error, by operation
  deletion            \* how far deleteProject has got

vars == <<qrCoordinates, batch, cert, extractedDir, batchDir, upload,
          processingBatches, run, job, bulk, events, certEvents, now,
          faults, republished, breakdown, rejected, deletion>>

NoBatch == [status |-> "none", isValid |-> FALSE, totalCertificates |-> 0,
            processedCertificates |-> 0, zip |-> NoUpload]

NoCert == [status |-> "none", certificateId |-> "", filename |-> "",
           errorMessage |-> Undefined, processingStartedAt |-> Undefined,
           processingCompletedAt |-> Undefined, issuedPdfPath |-> Undefined,
           qrCodeData |-> Undefined, verificationUrl |-> Undefined]

NoCall == [pc |-> "none", zip |-> NoUpload, validationResults |-> Undefined]

IdleRun == [pc |-> "idle", batch |-> "none", snapshot |-> NoBatch,
            certificates |-> <<>>, total |-> 0, response |-> "none",
            emitted |-> <<>>]

FreeJob == [pc |-> "free", cert |-> <<"none", 0>>]

NoBulk == [kind |-> "none", ids |-> {}, certificates |-> <<>>]

NoRepublish == [calls |-> 0, pc |-> "idle", cert |-> <<"none", 0>>]

NoEvents == [batchStarted |-> 0, batchCompleted |-> 0, batchFailed |-> 0]

NoCertEvents == [certificateStarted |-> 0, certificateCompleted |-> 0,
                 certificateRepublished |-> 0]

NoBreakdown == [pc |-> "idle", totalCerts |-> 0, BATCH_SIZE |-> 1,
                batches |-> <<>>]

InitStore ==
  /\ qrCoordinates = FALSE
  /\ batch = [b \in BatchIds |-> NoBatch]
  /\ cert = [c \in CertIds |-> NoCert]
  /\ extractedDir = [excel |-> Undefined, pdfs |-> {}]
  /\ batchDir = [b \in BatchIds |-> {}]
  /\ upload = [b \in BatchIds |-> NoCall]
  /\ processingBatches = {}
  /\ run = [r \in RunIds |-> IdleRun]
  /\ job = [j \in JobIds |-> FreeJob]
  /\ bulk = NoBulk
  /\ events = [b \in BatchIds |-> NoEvents]
  /\ certEvents = [c \in CertIds |-> NoCertEvents]
  /\ now = 1
  /\ faults = 0
  /\ republished = NoRepublish
  /\ deletion = "none"
  /\ rejected = {}

Init == InitStore /\ breakdown = NoBreakdown

\* ------------------------------------------------- calculateBatchBreakdown
Min(a, b) == IF a < b THEN a ELSE b

\* A chunk size that is not capped by what remains.
batchSize_NotCapped(remaining, size) == size

\* const batchSize = Math.min(remaining, this.BATCH_SIZE)
batchSize(remaining, size) == Min(remaining, size)

\* Math.ceil(batchSize * PROCESSING_TIME_PER_CERT), 0.1 minute a certificate
estimatedTime(n) == (n + 9) \div 10

RECURSIVE BreakdownLoop(_, _, _, _)
\* while (remaining > 0) { ... remaining -= batchSize; batchNumber++ }
BreakdownLoop(remaining, batchNumber, size, batches) ==
  IF remaining > 0
    THEN LET n == batchSize(remaining, size)
         IN BreakdownLoop(remaining - n, batchNumber + 1, size,
                          Append(batches, [batchNumber |-> batchNumber,
                                           certificateCount |-> n,
                                           estimatedTime |-> estimatedTime(n)]))
    ELSE batches

calculateBatchBreakdown(totalCerts, size) ==
  BreakdownLoop(totalCerts, 1, size, <<>>)

\* A call of calculateBatchBreakdown with any argument and any configured
\* batch size within the bounds.
InitBreakdown ==
  /\ InitStore
  /\ breakdown \in [pc : {"called"}, totalCerts : 0..MaxTotalCerts,
                    BATCH_SIZE : 1..MaxBatchSize, batches : {<<>>}]

calculateBatchBreakdown_Return ==
  /\ breakdown.pc = "called"
  /\ breakdown' = [breakdown EXCEPT
                     !.pc = "returned",
                     !.batches = calculateBatchBreakdown(breakdown.totalCerts,
                                                         breakdown.BATCH_SIZE)]
  /\ UNCHANGED <<qrCoordinates, batch, cert, extractedDir, batchDir, upload,
                 processingBatches, run, job, bulk, events, certEvents, now,
                 faults, republished, rejected, deletion>>

\* ------------------------------------------------------- manifest validator
RECURSIVE ExtractRows(_, _, _, _, _)
\* The row loop of validateBatchFiles: the accepted rows and the number of
\* error entries, first occurrence of an id or a filename wins.
ExtractRows(rows, seenIds, seenFilenames, accepted, errs) ==
  IF rows = <<>> THEN [certificates |-> accepted, errors |-> errs]
  ELSE LET row == Head(rows) IN
    IF row.certificateId = "" \/ row.filename = ""
      THEN ExtractRows(Tail(rows), seenIds, seenFilenames, accepted, errs + 1)
    ELSE IF row.certificateId \in seenIds
      THEN ExtractRows(Tail(rows), seenIds, seenFilenames, accepted, errs + 1)
    ELSE IF row.filename \in seenFilenames
      THEN ExtractRows(Tail(rows), seenIds, seenFilenames, accepted, errs + 1)
    ELSE ExtractRows(Tail(rows), seenIds \cup {row.certificateId},
                     seenFilenames \cup {row.filename},
                     Append(accepted, row), errs)

MAX_CERTIFICATES == 250
BATCH_SIZE == 50

createFailedValidation ==
  [isValid |-> FALSE, totalEntries |-> 0, validRecords |-> 0,
   invalidRecords |-> 0, estimatedProcessingTime |-> 0, errors |-> 1,
   missingPdfs |-> {}, extraPdfs |-> {}, batchBreakdown |-> <<>>]

\* key.toLowerCase() on the header cells of the model.
toLowerCase(key) == IF key = "certificateId" THEN "certificateid" ELSE key

\* String.includes on lower-cased header cells: none of "certificateid",
\* "certificate_id", "filename" and "file_name" is part of another.
includes(s, sub) == s = sub

\* Object.keys(row): sheet_to_json leaves an empty cell out of the row object.
Keys(columns, row) ==
  (IF row.certificateId # "" THEN {columns.certificateId} ELSE {})
  \cup (IF row.filename # "" THEN {columns.filename} ELSE {})

\* requiredColumns.filter(col => !keys(firstRow).some(...)) is empty.
HasRequiredColumns(sheet) ==
  \A col \in {"certificateId", "filename"} :
    \E key \in Keys(sheet.columns, sheet.rows[1]) :
      includes(toLowerCase(key), toLowerCase(col))

\* The per-row column lookup of validateBatchFiles and of
\* createCertificateRecords: the cell under the key that holds
\* 'certificateid' or 'certificate_id', and the cell under the key that holds
\* 'filename' or 'file_name'; "" when the row has no such key.
ReadRow(columns, row) ==
  LET keys == Keys(columns, row)
      certIdKey == {key \in keys :
                      \/ includes(toLowerCase(key), "certificateid")
                      \/ includes(toLowerCase(key), "certificate_id")}
      filenameKey == {key \in keys :
                        \/ includes(toLowerCase(key), "filename")
                        \/ includes(toLowerCase(key), "file_name")}
  IN Row(IF certIdKey # {} THEN row.certificateId ELSE "",
         IF filenameKey # {} THEN row.filename ELSE "")

ReadRows(sheet) ==
  [i \in DOMAIN sheet.rows |-> ReadRow(sheet.columns, sheet.rows[i])]

\* if (extraPdfs.length > 0) errors.push('Extra PDF files not in Excel: ...')
ExtraPdfsError(extraPdfs) == IF extraPdfs # {} THEN 1 ELSE 0

validateBatchFiles(sheet, pdfFiles) ==
  IF sheet.rows = <<>> THEN createFailedValidation
  ELSE IF ~HasRequiredColumns(sheet) THEN createFailedValidation
  ELSE
    LET ex == ExtractRows(ReadRows(sheet), {}, {}, <<>>, 0)
        certificates == ex.certificates
        excelFilenames == {certificates[i].filename : i \in DOMAIN certificates}
        missingPdfs == excelFilenames \ pdfFiles
        extraPdfs == pdfFiles \ excelFilenames
        errors == ex.errors
                  + (IF Len(certificates) > MAX_CERTIFICATES THEN 1 ELSE 0)
                  + (IF missingPdfs # {} THEN 1 ELSE 0)
                  + ExtraPdfsError(extraPdfs)
        validRecords == Len(certificates) - Cardinality(missingPdfs)
    IN [isValid |-> errors = 0 /\ missingPdfs = {},
        totalEntries |-> Len(certificates),
        validRecords |-> validRecords,
        invalidRecords |-> Len(certificates) - validRecords,
        estimatedProcessingTime |-> estimatedTime(validRecords),
        errors |-> errors, missingPdfs |-> missingPdfs,
        extraPdfs |-> extraPdfs,
        batchBreakdown |-> calculateBatchBreakdown(validRecords, BATCH_SIZE)]

\* BatchSchema.totalCertificates: required, min 1, max 250.
BatchSchemaAccepts(total) == total >= 1 /\ total <= 250

PdfNames(files) == {p.filename : p \in files}

\* ------------------------------------------------------------------ project
\* ProjectService.getProjectById finds the project.
ProjectExists == deletion # "deleted"

\* PUT /:id/coordinates
saveCoordinates ==
  /\ ProjectExists
  /\ ~qrCoordinates
  /\ qrCoordinates' = TRUE
  /\ UNCHANGED <<batch, cert, extractedDir, batchDir, upload,
                 processingBatches, run, job, bulk, events, certEvents, now,
                 faults, republished,
                 breakdown, rejected, deletion>>

\* new Date() is non-decreasing; two reads may return the same value.
Tick ==
  /\ now < MaxClock
  /\ now' = now + 1
  /\ UNCHANGED <<qrCoordinates, batch, cert, extractedDir, batchDir, upload,
                 processingBatches, run, job, bulk, events, certEvents,
                 faults, republished,
                 breakdown, rejected, deletion>>

\* ------------------------------------------------------------------- upload
\* zip.extractAllTo(extractedDir, true): the entries of the ZIP overwrite the
\* files of the same name, the other files of the directory stay.
ExtractAllTo(dir, u) ==
  [excel |-> Some(ManifestOf(u)),
   pdfs |-> {p \in dir.pdfs : p.filename \notin PdfNames(ZipPdfsOf(u))}
            \cup ZipPdfsOf(u)]

\* fs.rmSync(extractedDir, { recursive: true, force: true })
RemovedDir == [excel |-> Undefined, pdfs |-> {}]

\* The validation of what fs.readdirSync finds in the directory.
ValidateDir(dir) == validateBatchFiles(dir.excel[1], PdfNames(dir.pdfs))

\* processZipFile up to `await batch.save()`: extract the ZIP into the
\* `extracted` directory all uploads of the project share, validate what the
\* directory holds, persist the Batch record.
processZipFile_Save(b, u) ==
  /\ ProjectExists
  /\ qrCoordinates
  /\ batch[b].status = "none"
  /\ upload[b].pc = "none"
  /\ LET dir == ExtractAllTo(extractedDir, u)
         v == ValidateDir(dir)
     IN /\ BatchSchemaAccepts(v.totalEntries)
        /\ batch' = [batch EXCEPT ![b] =
               [status |-> IF v.isValid THEN "pending" ELSE "failed",
                isValid |-> v.isValid,
                totalCertificates |-> v.totalEntries,
                processedCertificates |-> 0,
                zip |-> u]]
        /\ extractedDir' = dir
        /\ upload' = [upload EXCEPT ![b] =
               [pc |-> "saved", zip |-> u, validationResults |-> Some(v)]]
  /\ UNCHANGED <<qrCoordinates, cert, batchDir, processingBatches, run, job,
                 bulk, events, certEvents, now, faults, republished,
                 breakdown, rejected, deletion>>

\* processZipFile when batch.save() rejects the document (totalCertificates
\* outside 1..250): the catch block removes the `extracted` directory and
\* rethrows, the route answers with status 500; no Batch record is stored.
processZipFile_SaveRejected(b, u) ==
  /\ ProjectExists
  /\ qrCoordinates
  /\ batch[b].status = "none"
  /\ upload[b].pc = "none"
  /\ LET v == ValidateDir(ExtractAllTo(extractedDir, u))
     IN /\ ~BatchSchemaAccepts(v.totalEntries)
        /\ upload' = [upload EXCEPT ![b] =
               [pc |-> "threw", zip |-> u, validationResults |-> Some(v)]]
  /\ extractedDir' = RemovedDir
  /\ UNCHANGED <<qrCoordinates, batch, cert, batchDir, processingBatches,
                 run, job, bulk, events, certEvents, now, faults,
                 republished, breakdown, rejected, deletion>>

NewCertificates_FirstRowOnly(b, sheet) ==
  [c \in CertIds |->
     IF c = <<b, 1>> /\ sheet.rows # <<>>
       THEN [NoCert EXCEPT !.status = "pending",
                           !.certificateId = sheet.rows[1].certificateId,
                           !.filename = sheet.rows[1].filename]
       ELSE cert[c]]

\* createCertificateRecords: one pending record per row of the worksheet
\* that has a certificate id and a filename.
NewCertificates(b, sheet) ==
  LET rows == ReadRows(sheet) IN
  [c \in CertIds |->
     IF c[1] = b /\ c[2] \in DOMAIN rows
          /\ rows[c[2]].certificateId # "" /\ rows[c[2]].filename # ""
       THEN [NoCert EXCEPT !.status = "pending",
                           !.certificateId = rows[c[2]].certificateId,
                           !.filename = rows[c[2]].filename]
       ELSE cert[c]]

\* processZipFile after the save: create the records of a valid batch from
\* the Excel file re-read in the `extracted` directory, then remove the
\* directory.  When the file is gone XLSX.readFile throws: the call ends
\* with 'Failed to create certificate records', the Batch record stays.
processZipFile_Finish(b) ==
  /\ upload[b].pc = "saved"
  /\ LET isValid == upload[b].validationResults[1].isValid IN
     IF ~isValid
       THEN cert' = cert /\ upload' = [upload EXCEPT ![b].pc = "done"]
     ELSE IF extractedDir.excel = Undefined
       THEN cert' = cert /\ upload' = [upload EXCEPT ![b].pc = "threw"]
     ELSE /\ cert' = NewCertificates(b, extractedDir.excel[1])
          /\ upload' = [upload EXCEPT ![b].pc = "done"]
  /\ extractedDir' = RemovedDir
  /\ UNCHANGED <<qrCoordinates, batch, batchDir, processingBatches, run, job,
                 bulk, events, certEvents, now, faults, republished,
                 breakdown, rejected, deletion>>

\* The blob store is an external collaborator: an operator unpacks the kept
\* ZIP into the directory embedQrCodeInPdf reads the source PDFs from.
OperatorUnpacksZip(b) ==
  /\ upload[b].pc = "done"
  /\ batchDir[b] = {}
  /\ batchDir' = [batchDir EXCEPT ![b] = ZipPdfsOf(batch[b].zip)]
  /\ UNCHANGED <<qrCoordinates, batch, cert, extractedDir, upload,
                 processingBatches, run, job, bulk, events, certEvents, now,
                 faults, republished,
                 breakdown, rejected, deletion>>

\* ----------------------------------------------------- processCertificate
\* The records CertificateModel.find returns, in creation order.
CertOrder == <<<<"b1", 1>>, <<"b1", 2>>, <<"b2", 1>>, <<"b2", 2>>>>

\* embedQrCodeInPdf: "ok", or the reason it throws.
embedQrCodeInPdf(c) ==
  LET b == c[1]
      src == {p \in batchDir[b] : p.filename = cert[c].filename}
  IN IF ~qrCoordinates THEN "no_qr_coordinates"
     ELSE IF batch[b].status = "none" THEN "no_batch"
     ELSE IF src = {} THEN "pdf_not_found"
     ELSE IF \E p \in src : p.kind = "corrupt" THEN "pdf_corrupt"
     ELSE "ok"

Bump(f, k) == [f EXCEPT ![k] = @ + 1]

\* findByIdAndUpdate(_id, {status: 'in-progress', processingStartedAt})
InProgressUpdate(rec) ==
  [rec EXCEPT !.status = "in-progress",
              !.processingStartedAt = Some(now)]

\* findByIdAndUpdate(_id, {status: 'issued', qrCodeData, verificationUrl,
\* issuedPdfPath, processingCompletedAt})
IssuedUpdate(rec) ==
  [rec EXCEPT !.status = "issued",
              !.qrCodeData = Some("qr"),
              !.verificationUrl = Some("id"),
              !.issuedPdfPath = Some("issued"),
              !.processingCompletedAt = Some(now)]

\* A catch block that records the error but not the status.
FailedUpdate_StatusKept(rec) ==
  [rec EXCEPT !.errorMessage = Some("error"),
              !.processingCompletedAt = Some(now)]

\* findByIdAndUpdate(_id, {status: 'failed', errorMessage,
\* processingCompletedAt})
FailedUpdate(rec) ==
  [rec EXCEPT !.status = "failed",
              !.errorMessage = Some("error"),
              !.processingCompletedAt = Some(now)]

\* A reset that leaves processingCompletedAt in place.
ResetUpdate_KeepsCompletedAt(rec) ==
  [rec EXCEPT !.status = "pending",
              !.errorMessage = Undefined,
              !.processingStartedAt = Undefined]

\* findByIdAndUpdate(id, {status: 'pending', errorMessage: undefined,
\* processingStartedAt: undefined, processingCompletedAt: undefined})
ResetUpdate(rec) ==
  [rec EXCEPT !.status = "pending",
              !.errorMessage = Undefined,
              !.processingStartedAt = Undefined,
              !.processingCompletedAt = Undefined]

\* An update of a record that does not exist changes nothing.
UpdateCert(c, rec) ==
  cert' = IF cert[c].status = "none" THEN cert ELSE [cert EXCEPT ![c] = rec]

processCertificate_Start(c) ==
  /\ UpdateCert(c, InProgressUpdate(cert[c]))
  /\ certEvents' = [certEvents EXCEPT ![c] = Bump(@, "certificateStarted")]

processCertificate_Issued(c) ==
  /\ UpdateCert(c, IssuedUpdate(cert[c]))
  /\ certEvents' = [certEvents EXCEPT ![c] = Bump(@, "certificateCompleted")]

processCertificate_Failed(c) ==
  /\ UpdateCert(c, FailedUpdate(cert[c]))
  /\ certEvents' = [certEvents EXCEPT ![c] = Bump(@, "certificateCompleted")]

\* A processCertificate that lets a stamping error escape to its caller.
AfterStampError_Rethrown == "catch"

\* Where a stamping error goes: the catch block of processCertificate.
AfterStampError == "pcatch"

\* ------------------------------------------------------------ start request
\* POST /:id/batches/:batchId/start-issuance up to `await getBatchById`.
StartIssuance_Read(r, b) ==
  /\ ProjectExists
  /\ run[r].pc = "idle"
  /\ \A q \in RunIds : q < r => run[q].pc # "idle"
  /\ batch[b].status # "none"
  /\ run' = [run EXCEPT ![r] = [IdleRun EXCEPT !.pc = "route", !.batch = b,
                                               !.snapshot = batch[b]]]
  /\ UNCHANGED <<qrCoordinates, batch, cert, extractedDir, batchDir, upload,
                 processingBatches, job, bulk, events, certEvents, now,
                 faults, republished,
                 breakdown, rejected, deletion>>

\* A route that leaves the check for a run in progress to the lock of
\* startBatchProcessing.
RouteVerdict_LockOnly(s) ==
  IF s.status = "completed" THEN "rejected_completed"
  ELSE IF ~s.isValid THEN "rejected_invalid"
  ELSE "ok"

\* The route without its check of validationResults.isValid.
RouteVerdict_NoValidationCheck(s) ==
  IF s.status = "processing" THEN "rejected_processing"
  ELSE IF s.status = "completed" THEN "rejected_completed"
  ELSE "ok"

\* The checks of the route on the batch it read.
RouteVerdict(s) ==
  IF s.status = "processing" THEN "rejected_processing"
  ELSE IF s.status = "completed" THEN "rejected_completed"
  ELSE IF ~s.isValid THEN "rejected_invalid"
  ELSE "ok"

\* A startBatchProcessing that does not look at processingBatches.
IsBeingProcessed_Unchecked(b) == FALSE

\* startBatchProcessing: this.processingBatches.get(batchId)
IsBeingProcessed(b) == b \in processingBatches

\* startBatchProcessing(...).catch(log); res.json({success: true}): the
\* answer of the route once it has called startBatchProcessing, whether the
\* promise it got is rejected or not.
BackgroundStartResponse == "200"

\* The rest of the route and the synchronous head of startBatchProcessing.
StartIssuance_Dispatch(r) ==
  /\ run[r].pc = "route"
  /\ LET b == run[r].batch
         v == RouteVerdict(run[r].snapshot)
     IN IF v # "ok"
          THEN /\ run' = [run EXCEPT ![r].pc = v, ![r].response = "400"]
               /\ UNCHANGED processingBatches
        ELSE IF IsBeingProcessed(b)
          THEN /\ run' = [run EXCEPT ![r].pc = "rejected_locked",
                                     ![r].response = BackgroundStartResponse]
               /\ UNCHANGED processingBatches
        ELSE /\ run' = [run EXCEPT ![r].pc = "mark",
                                   ![r].response = BackgroundStartResponse]
             /\ processingBatches' = processingBatches \cup {b}
  /\ UNCHANGED <<qrCoordinates, batch, cert, extractedDir, batchDir, upload,
                 job, bulk, events, certEvents, now, faults, republished,
                 breakdown, rejected, deletion>>

\* --------------------------------------------------- startBatchProcessing
\* this.emit(type, ...) by a drain run: the events of the run, in order.
Emit(log, type, id, count) ==
  Append(log, [type |-> type, id |-> id, count |-> count])

\* A loop that starts processCertificate and does not await it.
AfterCertStart_NotAwaited == "loop"

\* await this.processCertificate(certificate): the loop goes on when the
\* certificate has been stamped.
AfterCertStart == "stamp"

UpdateBatch(b, rec) ==
  batch' = IF batch[b].status = "none" THEN batch ELSE [batch EXCEPT ![b] = rec]

startBatchProcessing_Mark(r) ==
  /\ run[r].pc = "mark"
  /\ LET b == run[r].batch
     IN UpdateBatch(b, [batch[b] EXCEPT !.status = "processing"])
  /\ run' = [run EXCEPT ![r].pc = "find"]
  /\ UNCHANGED <<qrCoordinates, cert, extractedDir, batchDir, upload,
                 processingBatches, job, bulk, events, certEvents, now,
                 faults, republished,
                 breakdown, rejected, deletion>>

\* A query that also returns the failed certificates.
PendingQuery_AlsoFailed(status) == status \in {"pending", "failed"}

\* CertificateModel.find({ batchId, status: 'pending' })
PendingQuery(status) == status = "pending"

startBatchProcessing_Find(r) ==
  /\ run[r].pc = "find"
  /\ LET b == run[r].batch
         P(c) == c[1] = b /\ PendingQuery(cert[c].status)
         certificates == SelectSeq(CertOrder, P)
     IN /\ run' = [run EXCEPT ![r].pc = "loop",
                              ![r].certificates = certificates,
                              ![r].total = Len(certificates),
                              ![r].emitted = Emit(@, "batchStarted", <<b, 0>>,
                                                  Len(certificates))]
        /\ events' = [events EXCEPT ![b] = Bump(@, "batchStarted")]
  /\ UNCHANGED <<qrCoordinates, batch, cert, extractedDir, batchDir, upload,
                 processingBatches, job, bulk, certEvents, now, faults,
                 republished,
                 breakdown, rejected, deletion>>

startBatchProcessing_CertStart(r) ==
  /\ run[r].pc = "loop"
  /\ run[r].certificates # <<>>
  /\ processCertificate_Start(Head(run[r].certificates))
  /\ run' = [run EXCEPT ![r].pc = AfterCertStart,
                        ![r].emitted = Emit(@, "certificateStarted",
                                            Head(run[r].certificates), 0)]
  /\ UNCHANGED <<qrCoordinates, batch, extractedDir, batchDir, upload,
                 processingBatches, job, bulk, events, now, faults,
                 republished,
                 breakdown, rejected, deletion>>

startBatchProcessing_CertStamp(r) ==
  /\ run[r].pc = "stamp"
  /\ LET c == Head(run[r].certificates)
     IN IF embedQrCodeInPdf(c) = "ok"
          THEN /\ processCertificate_Issued(c)
               /\ run' = [run EXCEPT ![r].pc = "loop",
                                     ![r].certificates = Tail(@),
                                     ![r].emitted =
                                        Emit(@, "certificateCompleted", c, 0)]
          ELSE /\ run' = [run EXCEPT ![r].pc = AfterStampError]
               /\ UNCHANGED <<cert, certEvents>>
  /\ UNCHANGED <<qrCoordinates, batch, extractedDir, batchDir, upload,
                 processingBatches, job, bulk, events, now, faults,
                 republished,
                 breakdown, rejected, deletion>>

startBatchProcessing_CertCatch(r) ==
  /\ run[r].pc = "pcatch"
  /\ processCertificate_Failed(Head(run[r].certificates))
  /\ run' = [run EXCEPT ![r].pc = "loop", ![r].certificates = Tail(@),
                        ![r].emitted = Emit(@, "certificateCompleted",
                                            Head(run[r].certificates), 0)]
  /\ UNCHANGED <<qrCoordinates, batch, extractedDir, batchDir, upload,
                 processingBatches, job, bulk, events, now, faults,
                 republished,
                 breakdown, rejected, deletion>>

\* finally { this.processingBatches.delete(batchId) }
ReleaseLock(b) == processingBatches \ {b}

startBatchProcessing_Complete(r) ==
  /\ run[r].pc = "loop"
  /\ run[r].certificates = <<>>
  /\ LET b == run[r].batch
     IN /\ UpdateBatch(b, [batch[b] EXCEPT
                              !.status = "completed",
                              !.processedCertificates = run[r].total])
        /\ events' = [events EXCEPT ![b] = Bump(@, "batchCompleted")]
        /\ processingBatches' = ReleaseLock(b)
  /\ run' = [run EXCEPT ![r].pc = "completed",
                        ![r].emitted = Emit(@, "batchCompleted",
                                            <<run[r].batch, 0>>, run[r].total)]
  /\ UNCHANGED <<qrCoordinates, cert, extractedDir, batchDir, upload, job,
                 bulk, certEvents, now, faults, republished,
                 breakdown, rejected, deletion>>

\* A record-store call of the run throws: inside processCertificate the
\* error goes to its catch block, and from there, or from the body of
\* startBatchProcessing, to the catch block of startBatchProcessing.
FaultTarget(rec) ==
  IF rec.pc = "loop" /\ rec.certificates # <<>> THEN "pcatch"
  ELSE IF rec.pc = "stamp" THEN "pcatch"
  ELSE "catch"

startBatchProcessing_StoreFault(r) ==
  /\ faults < MaxStoreFaults
  /\ run[r].pc \in {"mark", "find", "loop", "stamp", "pcatch"}
  /\ run[r].pc = "stamp" => embedQrCodeInPdf(Head(run[r].certificates)) = "ok"
  /\ run' = [run EXCEPT ![r].pc = FaultTarget(run[r])]
  /\ faults' = faults + 1
  /\ UNCHANGED <<qrCoordinates, batch, cert, extractedDir, batchDir, upload,
                 processingBatches, job, bulk, events, certEvents, now,
                 republished,
                 breakdown, rejected, deletion>>

startBatchProcessing_Catch(r) ==
  /\ run[r].pc = "catch"
  /\ LET b == run[r].batch
     IN /\ UpdateBatch(b, [batch[b] EXCEPT !.status = "failed"])
        /\ events' = [events EXCEPT ![b] = Bump(@, "batchFailed")]
        /\ processingBatches' = ReleaseLock(b)
  /\ run' = [run EXCEPT ![r].pc = "failed",
                        ![r].emitted = Emit(@, "batchFailed",
                                            <<run[r].batch, 0>>, 0)]
  /\ UNCHANGED <<qrCoordinates, cert, extractedDir, batchDir, upload, job,
                 bulk, certEvents, now, faults, republished,
                 breakdown, rejected, deletion>>

\* The update in the catch block throws: only the finally block runs.
startBatchProcessing_CatchFault(r) ==
  /\ faults < MaxStoreFaults
  /\ run[r].pc = "catch"
  /\ processingBatches' = ReleaseLock(run[r].batch)
  /\ run' = [run EXCEPT ![r].pc = "threw"]
  /\ faults' = faults + 1
  /\ UNCHANGED <<qrCoordinates, batch, cert, extractedDir, batchDir, upload,
                 job, bulk, events, certEvents, now, republished,
                 breakdown, rejected, deletion>>

\* ------------------------------------------------------- retry and reissue
\* No bulk call is inside its loop.
BulkIdle == bulk.certificates = <<>>

FreeJobs == {j \in JobIds : job[j].pc = "free"}

\* setTimeout(() => this.processCertificate(certificate), 1000)
ScheduleReprocess(c) ==
  LET j == CHOOSE k \in FreeJobs : \A m \in FreeJobs : k <= m
  IN job' = [job EXCEPT ![j] = [pc |-> "scheduled", cert |-> c]]

retryCertificate(c) ==
  /\ BulkIdle
  /\ FreeJobs # {}
  /\ cert[c].status # "none"
  /\ UpdateCert(c, ResetUpdate(cert[c]))
  /\ ScheduleReprocess(c)
  /\ UNCHANGED <<qrCoordinates, batch, extractedDir, batchDir, upload,
                 processingBatches, run, bulk, events, certEvents, now,
                 faults, republished,
                 breakdown, rejected, deletion>>

reissueCertificate(c) ==
  /\ BulkIdle
  /\ FreeJobs # {}
  /\ cert[c].status # "none"
  /\ UpdateCert(c, ResetUpdate(cert[c]))
  /\ ScheduleReprocess(c)
  /\ UNCHANGED <<qrCoordinates, batch, extractedDir, batchDir, upload,
                 processingBatches, run, bulk, events, certEvents, now,
                 faults, republished,
                 breakdown, rejected, deletion>>

\* retryCertificate on an id findById does not find: 'Certificate not found',
\* answered by the route with status 500.
retryCertificate_NotFound(c) ==
  /\ BulkIdle
  /\ cert[c].status = "none"
  /\ rejected' = rejected \cup {"retryCertificate"}
  /\ UNCHANGED <<qrCoordinates, batch, cert, extractedDir, batchDir, upload,
                 processingBatches, run, job, bulk, events, certEvents, now,
                 faults, republished, breakdown, deletion>>

\* The callback of the timer: processCertificate on the document read before
\* the reset.
Timer_CertStart(j) ==
  /\ job[j].pc = "scheduled"
  /\ processCertificate_Start(job[j].cert)
  /\ job' = [job EXCEPT ![j].pc = "stamp"]
  /\ UNCHANGED <<qrCoordinates, batch, extractedDir, batchDir, upload,
                 processingBatches, run, bulk, events, now, faults,
                 republished,
                 breakdown, rejected, deletion>>

DoneJob == [pc |-> "done", cert |-> <<"none", 0>>]

Timer_CertStamp(j) ==
  /\ job[j].pc = "stamp"
  /\ IF embedQrCodeInPdf(job[j].cert) = "ok"
       THEN /\ processCertificate_Issued(job[j].cert)
            /\ job' = [job EXCEPT ![j] = DoneJob]
       ELSE /\ job' = [job EXCEPT ![j].pc = AfterStampError]
            /\ UNCHANGED <<cert, certEvents>>
  /\ UNCHANGED <<qrCoordinates, batch, extractedDir, batchDir, upload,
                 processingBatches, run, bulk, events, now, faults,
                 republished,
                 breakdown, rejected, deletion>>

Timer_CertCatch(j) ==
  /\ job[j].pc = "pcatch"
  /\ processCertificate_Failed(job[j].cert)
  /\ job' = [job EXCEPT ![j] = DoneJob]
  /\ UNCHANGED <<qrCoordinates, batch, extractedDir, batchDir, upload,
                 processingBatches, run, bulk, events, now, faults,
                 republished,
                 breakdown, rejected, deletion>>

\* A record-store call of the callback throws; an error thrown by the catch
\* block of processCertificate is logged by the .catch of the callback.
Timer_StoreFault(j) ==
  /\ faults < MaxStoreFaults
  /\ job[j].pc \in {"scheduled", "stamp", "pcatch"}
  /\ job[j].pc = "stamp" => embedQrCodeInPdf(job[j].cert) = "ok"
  /\ job' = [job EXCEPT ![j] = IF job[j].pc = "pcatch"
                                 THEN [DoneJob EXCEPT !.pc = "threw"]
                                 ELSE [@ EXCEPT !.pc = "pcatch"]]
  /\ faults' = faults + 1
  /\ UNCHANGED <<qrCoordinates, batch, cert, extractedDir, batchDir, upload,
                 processingBatches, run, bulk, events, certEvents, now,
                 republished,
                 breakdown, rejected, deletion>>

\* ------------------------------------------------------------ bulk variants
\* A bulk retry that takes every listed certificate.
BulkRetryFilter_AnyStatus(status) == TRUE

\* bulkRetryCertificates keeps the listed certificates that are failed.
BulkRetryFilter(status) == status = "failed"

bulkRetryCertificates(ids) ==
  /\ BulkIdle
  /\ LET P(c) == c \in ids /\ cert[c].status # "none"
                   /\ BulkRetryFilter(cert[c].status)
         certificates == SelectSeq(CertOrder, P)
     IN /\ certificates # <<>>
        /\ Cardinality(FreeJobs) >= Len(certificates)
        /\ bulk' = [kind |-> "retry", ids |-> ids, certificates |-> certificates]
  /\ UNCHANGED <<qrCoordinates, batch, cert, extractedDir, batchDir, upload,
                 processingBatches, run, job, events, certEvents, now,
                 faults, republished,
                 breakdown, rejected, deletion>>

bulkReissueCertificates(ids) ==
  /\ BulkIdle
  /\ LET P(c) == c \in ids /\ cert[c].status # "none"
         certificates == SelectSeq(CertOrder, P)
     IN /\ certificates # <<>>
        /\ Cardinality(FreeJobs) >= Len(certificates)
        /\ bulk' = [kind |-> "reissue", ids |-> ids,
                    certificates |-> certificates]
  /\ UNCHANGED <<qrCoordinates, batch, cert, extractedDir, batchDir, upload,
                 processingBatches, run, job, events, certEvents, now,
                 faults, republished,
                 breakdown, rejected, deletion>>

\* bulkRetryCertificates when find returns nothing: 'No failed certificates
\* found to retry', answered by the route with status 500.
bulkRetryCertificates_NoneFailed(ids) ==
  /\ BulkIdle
  /\ ids # {}
  /\ \A c \in ids : cert[c].status = "none" \/ ~BulkRetryFilter(cert[c].status)
  /\ rejected' = rejected \cup {"bulkRetryCertificates"}
  /\ UNCHANGED <<qrCoordinates, batch, cert, extractedDir, batchDir, upload,
                 processingBatches, run, job, bulk, events, certEvents, now,
                 faults, republished, breakdown, deletion>>

\* One iteration of the loop of a bulk call: retryCertificate(cert.id) or
\* reissueCertificate(cert.id), which reset the record whatever its status.
Bulk_Next ==
  /\ ~BulkIdle
  /\ LET c == Head(bulk.certificates)
     IN /\ UpdateCert(c, ResetUpdate(cert[c]))
        /\ ScheduleReprocess(c)
  /\ bulk' = [bulk EXCEPT !.certificates = Tail(@)]
  /\ UNCHANGED <<qrCoordinates, batch, extractedDir, batchDir, upload,
                 processingBatches, run, events, certEvents, now, faults,
                 republished,
                 breakdown, rejected, deletion>>

\* ------------------------------------------------------------ deleteProject
\* ProjectModel.findById(id): the project exists.
deleteProject_Find ==
  /\ deletion = "none"
  /\ deletion' = "found"
  /\ UNCHANGED <<qrCoordinates, batch, cert, extractedDir, batchDir, upload,
                 processingBatches, run, job, bulk, events, certEvents, now,
                 faults, republished, breakdown, rejected>>

\* CertificateModel.deleteMany({ projectId: id })
deleteProject_Certificates ==
  /\ deletion = "found"
  /\ cert' = [c \in CertIds |-> NoCert]
  /\ deletion' = "certificates"
  /\ UNCHANGED <<qrCoordinates, batch, extractedDir, batchDir, upload,
                 processingBatches, run, job, bulk, events, certEvents, now,
                 faults, republished, breakdown, rejected>>

\* BatchModel.deleteMany({ projectId: id }), then fs.rmSync of the upload
\* directory of the project.
deleteProject_Batches ==
  /\ deletion = "certificates"
  /\ batch' = [b \in BatchIds |-> NoBatch]
  /\ extractedDir' = RemovedDir
  /\ batchDir' = [b \in BatchIds |-> {}]
  /\ deletion' = "batches"
  /\ UNCHANGED <<qrCoordinates, cert, upload, processingBatches, run, job,
                 bulk, events, certEvents, now, faults, republished,
                 breakdown, rejected>>

\* ProjectModel.findByIdAndDelete(id); return true.
deleteProject_Project ==
  /\ deletion = "batches"
  /\ deletion' = "deleted"
  /\ qrCoordinates' = FALSE
  /\ UNCHANGED <<batch, cert, extractedDir, batchDir, upload,
                 processingBatches, run, job, bulk, events, certEvents, now,
                 faults, republished, breakdown, rejected>>

\* ------------------------------------------------------ process termination
\* What is left of a request, a drain run or a timer callback when the
\* process ends: nothing of it runs again.
LostRun(rec) ==
  IF rec.pc \in {"route", "mark", "find", "loop", "stamp", "pcatch", "catch"}
    THEN [rec EXCEPT !.pc = "lost"] ELSE rec

LostJob(rec) ==
  IF rec.pc \in {"scheduled", "stamp", "pcatch"}
    THEN [rec EXCEPT !.pc = "lost"] ELSE rec

LostCall(rec) == IF rec.pc = "saved" THEN [rec EXCEPT !.pc = "lost"] ELSE rec

\* The process ends while a drain run is active and is started again: the
\* singleton CertificateIssuanceService is constructed anew with an empty
\* processingBatches, the timers and the requests in flight are gone, the
\* record store and the blob store keep what they hold.
ProcessTerminates ==
  /\ processingBatches # {}
  /\ processingBatches' = {}
  /\ run' = [r \in RunIds |-> LostRun(run[r])]
  /\ job' = [j \in JobIds |-> LostJob(job[j])]
  /\ upload' = [b \in BatchIds |-> LostCall(upload[b])]
  /\ bulk' = [bulk EXCEPT !.certificates = <<>>]
  /\ republished' = [republished EXCEPT !.pc = "idle",
                                        !.cert = NoRepublish.cert]
  /\ UNCHANGED <<qrCoordinates, batch, cert, extractedDir, batchDir, events,
                 certEvents, now, faults, breakdown, rejected, deletion>>

\* ---------------------------------------------------------------- republish
\* An update that also stamps the time of completion again.
RepublishUpdate_Restamps(rec) ==
  [rec EXCEPT !.verificationUrl = <<"id", now>>,
              !.processingCompletedAt = Some(now)]

\* findByIdAndUpdate(certificateId, {verificationUrl: `...?id=<id>&t=<now>`})
RepublishUpdate(rec) ==
  [rec EXCEPT !.verificationUrl = <<"id", now>>]

\* republishCertificate up to the end of `await findById` and the checks
\* after it; a call that throws is answered by the route with status 500.
republishCertificate_Read(c) ==
  /\ republished.calls < MaxRepublish
  /\ republished.pc = "idle"
  /\ IF cert[c].status = "issued"
       THEN /\ republished' = [calls |-> republished.calls + 1,
                               pc |-> "update", cert |-> c]
            /\ UNCHANGED rejected
       ELSE /\ republished' = [republished EXCEPT !.calls = @ + 1]
            /\ rejected' = rejected \cup {"republishCertificate"}
  /\ UNCHANGED <<qrCoordinates, batch, cert, extractedDir, batchDir, upload,
                 processingBatches, run, job, bulk, events, certEvents, now,
                 faults, breakdown, deletion>>

\* The update of verificationUrl and the certificateRepublished event.
republishCertificate_Update ==
  /\ republished.pc = "update"
  /\ LET c == republished.cert
     IN /\ UpdateCert(c, RepublishUpdate(cert[c]))
        /\ certEvents' = [certEvents EXCEPT
                            ![c] = Bump(@, "certificateRepublished")]
  /\ republished' = [republished EXCEPT !.pc = "idle",
                                        !.cert = NoRepublish.cert]
  /\ UNCHANGED <<qrCoordinates, batch, extractedDir, batchDir, upload,
                 processingBatches, run, job, bulk, events, now, faults,
                 breakdown, rejected, deletion>>

\* --------------------------------------------------------- specifications
CertsOfBatch(b) == {c \in CertIds : c[1] = b}

Uploading(B, U) ==
  \/ \E b \in B, u \in U : processZipFile_Save(b, u)
  \/ \E b \in B : processZipFile_Finish(b)
  \/ \E b \in B : OperatorUnpacksZip(b)

Starting(R) ==
  \/ \E r \in R, b \in BatchIds : StartIssuance_Read(r, b)
  \/ \E r \in R : StartIssuance_Dispatch(r)

Draining ==
  \/ \E r \in RunIds : startBatchProcessing_Mark(r)
  \/ \E r \in RunIds : startBatchProcessing_Find(r)
  \/ \E r \in RunIds : startBatchProcessing_CertStart(r)
  \/ \E r \in RunIds : startBatchProcessing_CertStamp(r)
  \/ \E r \in RunIds : startBatchProcessing_CertCatch(r)
  \/ \E r \in RunIds : startBatchProcessing_Complete(r)

DrainFaults ==
  \/ \E r \in RunIds : startBatchProcessing_StoreFault(r)
  \/ \E r \in RunIds : startBatchProcessing_Catch(r)
  \/ \E r \in RunIds : startBatchProcessing_CatchFault(r)

SingleReprocessing(C) ==
  \/ \E c \in C : retryCertificate(c)
  \/ \E c \in C : reissueCertificate(c)

BulkReprocessing(C) ==
  \/ \E ids \in SUBSET C : bulkRetryCertificates(ids)
  \/ \E ids \in SUBSET C : bulkReissueCertificates(ids)
  \/ Bulk_Next

Republishing(C) ==
  \/ \E c \in C : republishCertificate_Read(c)
  \/ republishCertificate_Update

Reprocessing(C) ==
  \/ SingleReprocessing(C) \/ BulkReprocessing(C) \/ Republishing(C)

Rejections(C) ==
  \/ \E c \in C : retryCertificate_NotFound(c)
  \/ \E ids \in SUBSET C : bulkRetryCertificates_NoneFailed(ids)

Deleting ==
  \/ deleteProject_Find \/ deleteProject_Certificates
  \/ deleteProject_Batches \/ deleteProject_Project

Timers ==
  \/ \E j \in JobIds : Timer_CertStart(j)
  \/ \E j \in JobIds : Timer_CertStamp(j)
  \/ \E j \in JobIds : Timer_CertCatch(j)

\* Every operation, on every batch, with record-store failures.
Next ==
  \/ saveCoordinates
  \/ Uploading(BatchIds,
               AllUploads \cup Uploads \cup HeaderUploads \cup OverlapUploads)
  \/ \E b \in BatchIds, u \in AllUploads \cup HeaderUploads :
       processZipFile_SaveRejected(b, u)
  \/ Starting(RunIds) \/ Draining \/ DrainFaults
  \/ Reprocessing(CertIds) \/ Rejections(CertIds) \/ Timers
  \/ \E j \in JobIds : Timer_StoreFault(j)
  \/ Tick
  \/ Deleting
  \/ ProcessTerminates
  \/ calculateBatchBreakdown_Return

Spec == Init /\ [][Next]_vars

\* Uploads of every manifest and every set of PDF entries within the bounds.
NextValidate ==
  \/ saveCoordinates
  \/ (upload["b1"].pc = "none"
        /\ \E u \in AllUploads : processZipFile_Save("b1", u))
  \/ (upload["b1"].pc = "none"
        /\ \E u \in AllUploads : processZipFile_SaveRejected("b1", u))
  \/ processZipFile_Finish("b1")

ValidateSpec == Init /\ [][NextValidate]_vars

\* Uploads whose manifests spell the header cells in each accepted way.
NextHeaders ==
  \/ saveCoordinates
  \/ (upload["b1"].pc = "none"
        /\ \E u \in HeaderUploads : processZipFile_Save("b1", u))
  \/ (upload["b1"].pc = "none"
        /\ \E u \in HeaderUploads : processZipFile_SaveRejected("b1", u))
  \/ processZipFile_Finish("b1")

HeaderSpec == Init /\ [][NextHeaders]_vars

\* calculateBatchBreakdown on every argument within the bounds.
BreakdownSpec == InitBreakdown /\ [][calculateBatchBreakdown_Return]_vars

\* Start requests and drain runs: behaviours with two batches and the record
\* store available, and behaviours with one batch and a record store that
\* may fail.
NextStart ==
  \/ saveCoordinates
  \/ Uploading({"b1"}, Uploads)
  \/ (faults = 0 /\ Uploading({"b2"}, {ValidUpload}))
  \/ Starting(RunIds) \/ Draining
  \/ (batch["b2"].status = "none" /\ DrainFaults)

StartSpec == Init /\ [][NextStart]_vars

\* One batch and one start request, the record store available.
OneBatch ==
  \/ saveCoordinates \/ Uploading({"b1"}, Uploads)
  \/ Starting({1}) \/ Draining \/ Timers

\* Retry and reissue of single certificates.
NextRetry == OneBatch \/ SingleReprocessing(CertsOfBatch("b1"))

RetrySpec == Init /\ [][NextRetry]_vars

\* Bulk retry and bulk reissue.
NextBulk == OneBatch \/ BulkReprocessing(CertsOfBatch("b1"))

BulkSpec == Init /\ [][NextBulk]_vars

\* Republish, and the reissue that may run beside it.
NextRepublish ==
  \/ OneBatch \/ Republishing(CertsOfBatch("b1"))
  \/ \E c \in CertsOfBatch("b1") : reissueCertificate(c)

RepublishSpec == Init /\ [][NextRepublish]_vars

\* One batch, start requests, and the retry and bulk retry calls that are
\* answered with an error; the record store available.
NextReject ==
  \/ saveCoordinates \/ Uploading({"b1"}, Uploads)
  \/ Starting(RunIds) \/ Draining \/ Rejections(CertsOfBatch("b1"))

RejectSpec == Init /\ [][NextReject]_vars

\* Start and restart requests, with retry and reissue of the second
\* certificate of the batch only: no retry or reissue is ever invoked on the
\* other certificates.  The record store may fail in the behaviours without
\* a retry or a reissue, and the batch is started again after a failure.
Reprocessed == {<<"b1", 2>>}

NextFailed ==
  \/ saveCoordinates \/ Uploading({"b1"}, Uploads)
  \/ Starting({1}) \/ (faults > 0 /\ Starting(RunIds)) \/ Draining
  \/ (FreeJobs = JobIds /\ DrainFaults)
  \/ (faults = 0 /\ SingleReprocessing(Reprocessed))
  \/ Timers

FailedSpec == Init /\ [][NextFailed]_vars

\* Two uploads to the project, one after the other or overlapping.
NextOverlap == saveCoordinates \/ Uploading(BatchIds, OverlapUploads)

OverlapSpec == Init /\ [][NextOverlap]_vars

\* Deletion of the project beside an upload, a drain run and a retry.
NextDelete == NextRetry \/ Deleting

DeleteSpec == Init /\ [][NextDelete]_vars

\* Start requests and drain runs of one batch, with the process ending
\* while a run is active.
NextTerminate ==
  \/ saveCoordinates \/ Uploading({"b1"}, Uploads)
  \/ Starting(RunIds) \/ Draining
  \/ ProcessTerminates

TerminateSpec == Init /\ [][NextTerminate]_vars

\* RetrySpec with every scheduled timer callback eventually running: the
\* event loop runs each callback and each continuation of processCertificate.
LiveSpec ==
  /\ RetrySpec
  /\ \A j \in JobIds :
       WF_vars(Timer_CertStart(j) \/ Timer_CertStamp(j) \/ Timer_CertCatch(j))

\* RetrySpec with the clock advancing.
NextClock == NextRetry \/ Tick

ClockSpec == Init /\ [][NextClock]_vars

\* ------------------------------------------------------------------ claims
ActiveRun(r) == run[r].pc \in {"mark", "find", "loop", "stamp", "pcatch", "catch"}
EndedRun(r) == run[r].pc \in {"completed", "failed", "threw"}
RejectedByRoute == {"rejected_processing", "rejected_completed", "rejected_invalid"}
CertsOf(b) == {c \in CertIds : c[1] = b /\ cert[c].status # "none"}
Terminal == {"issued", "failed"}

\* C1: at most one drain run of startBatchProcessing is active for a batch
\* at any time; a start request dispatched while a run is active is rejected,
\* starts no run and leaves the lock of the active run in place.
C1_OneRunAtATime ==
  \A b \in BatchIds : Cardinality({r \in RunIds : ActiveRun(r) /\ run[r].batch = b}) <= 1

C1_ConcurrentStartRejected ==
  \A r \in RunIds :
    (/\ run[r].pc = "route"
     /\ run'[r].pc # "route"
     /\ \E q \in RunIds : ActiveRun(q) /\ run[q].batch = run[r].batch)
    => /\ run'[r].pc \in RejectedByRoute \cup {"rejected_locked"}
       /\ processingBatches' = processingBatches
       /\ run[r].batch \in processingBatches'
       /\ \A q \in RunIds \ {r} : run'[q] = run[q]

C1_ExclusivePerBatch ==
  [](C1_OneRunAtATime) /\ [][C1_ConcurrentStartRejected]_vars

C1_Witness ==
  \E r, q \in RunIds :
    /\ run[q].pc = "rejected_locked"
    /\ run[q].batch = run[r].batch
    /\ run[r].pc = "completed"
    /\ events[run[r].batch].batchStarted = 1

\* C2: every change of a certificate's stored status is pending->in-progress,
\* in-progress->issued, in-progress->failed, issued->pending or
\* failed->pending.
C2_AllowedChanges ==
  {<<"pending", "in-progress">>, <<"in-progress", "issued">>,
   <<"in-progress", "failed">>, <<"issued", "pending">>,
   <<"failed", "pending">>}

C2_StatusChanges ==
  [][\A c \in CertIds :
       (cert[c].status # "none" /\ cert'[c].status # cert[c].status)
       => <<cert[c].status, cert'[c].status>> \in C2_AllowedChanges]_vars

\* C3: a run on a batch that passed validation, in a project with a QR
\* placement, whose snapshot held all N certificates, ends with every
\* certificate issued, N certificateStarted and N certificateCompleted
\* events, one batchStarted and one batchCompleted event, the batch completed
\* and processedCertificates = N (record store available, sound PDFs, the
\* upload directory holding what processZipFile left there).
C3_ValidBatchIssued ==
  \A r \in RunIds :
    LET b == run[r].batch IN
    (/\ EndedRun(r)
     /\ faults = 0
     /\ batch[b].isValid /\ batch[b].zip = ValidUpload
     /\ run[r].total = batch[b].totalCertificates
     /\ batchDir[b] = {}
     /\ events[b].batchStarted = 1)
    => /\ \A c \in CertsOf(b) :
            /\ cert[c].status = "issued"
            /\ certEvents[c].certificateStarted = 1
            /\ certEvents[c].certificateCompleted = 1
       /\ events[b].batchCompleted = 1
       /\ batch[b].status = "completed"
       /\ batch[b].processedCertificates = batch[b].totalCertificates

\* C4: a start request that read the batch as processing or completed, or as
\* not valid, is rejected: it starts no run, takes no lock, changes no batch
\* or certificate record and emits no event; a batch that failed validation
\* stays failed and is never processed.
C4_RejectedStep ==
  \A r \in RunIds :
    (/\ run[r].pc = "route"
     /\ run'[r].pc # "route"
     /\ \/ run[r].snapshot.status \in {"processing", "completed"}
        \/ ~run[r].snapshot.isValid)
    => /\ run'[r].pc \in RejectedByRoute
       /\ batch' = batch /\ cert' = cert
       /\ events' = events /\ certEvents' = certEvents
       /\ processingBatches' = processingBatches

C4_InvalidStaysFailed ==
  \A b \in BatchIds :
    (batch[b].status # "none" /\ ~batch[b].isValid)
    => /\ batch[b].status = "failed"
       /\ b \notin processingBatches
       /\ events[b] = NoEvents
       /\ CertsOf(b) = {}

C4_StartRejected == [](C4_InvalidStaysFailed) /\ [][C4_RejectedStep]_vars

C4_Witness ==
  \E r \in RunIds :
    /\ run[r].pc = "rejected_invalid"
    /\ batch[run[r].batch].status = "failed"
    /\ \E q \in RunIds : run[q].pc = "completed"

\* C5: a stamping failure makes that certificate alone failed, with an
\* errorMessage, and the loop goes on with the next certificate; a run that
\* meets no record-store error ends with the batch completed and none of its
\* certificates in progress; a run reaches the catch block of
\* startBatchProcessing only after a record-store error.
C5_CertCatchStep ==
  \A r \in RunIds :
    (run[r].pc = "pcatch" /\ run'[r].pc # "pcatch" /\ faults' = faults)
    => LET c == Head(run[r].certificates) IN
       /\ cert'[c].status = "failed"
       /\ cert'[c].errorMessage # Undefined
       /\ \A d \in CertIds \ {c} : cert'[d] = cert[d]
       /\ batch' = batch
       /\ run'[r].pc = "loop"
       /\ run'[r].certificates = Tail(run[r].certificates)

C5_RunEndStep ==
  \A r \in RunIds :
    (ActiveRun(r) /\ ~ActiveRun(r)' /\ faults' = 0)
    => /\ run'[r].pc = "completed"
       /\ batch'[run[r].batch].status = "completed"
       /\ \A c \in CertsOf(run[r].batch) : cert'[c].status # "in-progress"

C5_BatchFailsOnlyOnStoreError ==
  \A r \in RunIds : run[r].pc \in {"catch", "failed", "threw"} => faults > 0

C5_StampFailureIsLocal ==
  /\ [](C5_BatchFailsOnlyOnStoreError)
  /\ [][C5_CertCatchStep /\ C5_RunEndStep]_vars

C5_Witness ==
  \E r \in RunIds :
    LET b == run[r].batch IN
    /\ run[r].pc = "completed"
    /\ faults = 0
    /\ batch[b].status = "completed"
    /\ cert[<<b, 1>>].status = "failed"
    /\ cert[<<b, 1>>].errorMessage # Undefined
    /\ cert[<<b, 2>>].status = "issued"

\* C6: a run whose record-store error escaped the drain loop ends with the
\* stored batch status failed, exactly one batchFailed event, no
\* batchCompleted event and the processing lock released.
C6_EscapedErrorFailsBatch ==
  [][\A r \in RunIds :
       (run[r].pc = "catch" /\ run'[r].pc # "catch")
       => LET b == run[r].batch IN
          /\ batch'[b].status = "failed"
          /\ events'[b].batchFailed = events[b].batchFailed + 1
          /\ events'[b].batchCompleted = events[b].batchCompleted
          /\ b \notin processingBatches']_vars

\* C7: once a run that acquired the lock of a batch has ended and the lock
\* is released, a new start request for the batch is not rejected as already
\* being processed: the stored status is not processing.
C7_RestartAfterRelease ==
  \A r \in RunIds :
    (EndedRun(r) /\ run[r].batch \notin processingBatches)
    => batch[run[r].batch].status # "processing"

\* C8: retryCertificate on a failed certificate leaves it pending with
\* errorMessage cleared, and a certificate with a scheduled reprocessing
\* eventually is issued or failed.
C8_RetryStep ==
  \A j \in JobIds :
    (job[j].pc = "free" /\ job'[j].pc = "scheduled"
       /\ cert[job'[j].cert].status = "failed")
    => /\ cert'[job'[j].cert].status = "pending"
       /\ cert'[job'[j].cert].errorMessage = Undefined

C9_ResetStep ==
  \A j \in JobIds :
    (job[j].pc = "free" /\ job'[j].pc = "scheduled")
    => LET c == job'[j].cert IN
       /\ cert'[c].status = "pending"
       /\ cert'[c].errorMessage = Undefined
       /\ cert'[c].processingStartedAt = Undefined
       /\ cert'[c].processingCompletedAt = Undefined
       /\ \A d \in CertIds \ {c} : cert'[d] = cert[d]
       /\ batch' = batch
       /\ \A k \in JobIds \ {j} : job'[k] = job[k]

C10_Timestamps ==
  \A c \in CertIds :
    /\ cert[c].status \in Terminal
       => /\ cert[c].processingStartedAt # Undefined
          /\ cert[c].processingCompletedAt # Undefined
          /\ cert[c].processingStartedAt[1] <= cert[c].processingCompletedAt[1]
    /\ cert[c].status = "pending"
       => /\ cert[c].processingStartedAt = Undefined
          /\ cert[c].processingCompletedAt = Undefined

\* C19: for an argument n >= 0 and a batch size B >= 1 the breakdown has
\* ceil(n / B) chunks numbered 1, 2, ...; every chunk has between 1 and B
\* certificates, every chunk but the last has B, and the counts sum to n.
RECURSIVE SumCounts(_)
SumCounts(bs) == IF bs = <<>> THEN 0 ELSE Head(bs).certificateCount + SumCounts(Tail(bs))

CeilDiv(n, d) == IF n % d = 0 THEN n \div d ELSE (n \div d) + 1

C19_Breakdown ==
  breakdown.pc = "returned" =>
    LET n == breakdown.totalCerts
        B == breakdown.BATCH_SIZE
        bs == breakdown.batches
    IN /\ Len(bs) = CeilDiv(n, B)
       /\ \A i \in DOMAIN bs :
            /\ bs[i].batchNumber = i
            /\ bs[i].certificateCount >= 1
            /\ bs[i].certificateCount <= B
            /\ i < Len(bs) => bs[i].certificateCount = B
       /\ SumCounts(bs) = n

C19_Witness ==
  /\ breakdown.pc = "returned"
  /\ Len(breakdown.batches) >= 3
  /\ breakdown.batches[Len(breakdown.batches)].certificateCount
       < breakdown.BATCH_SIZE

\* C11: for each certificate the certificateStarted and certificateCompleted
\* events alternate, beginning with certificateStarted: at any time the
\* certificate has as many certificateStarted as certificateCompleted
\* events, or one more.
C11_EventsAlternate ==
  \A c \in CertIds :
    certEvents[c].certificateStarted - certEvents[c].certificateCompleted
      \in {0, 1}

\* C12: bulkRetryCertificates takes from its list exactly the certificates
\* that are failed when it is called; its loop resets and schedules only
\* these, one at a time: a listed certificate that was issued, pending or
\* in-progress is not written and gets no reprocessing.
C12_CallStep ==
  (BulkIdle /\ ~BulkIdle' /\ bulk'.kind = "retry")
  => LET taken == {bulk'.certificates[i] : i \in DOMAIN bulk'.certificates}
     IN /\ taken = {c \in bulk'.ids : cert[c].status = "failed"}
        /\ cert' = cert
        /\ job' = job

C12_LoopStep ==
  (bulk.kind = "retry" /\ ~BulkIdle /\ bulk' # bulk)
  => LET c == Head(bulk.certificates)
     IN /\ bulk'.ids = bulk.ids
        /\ bulk'.certificates = Tail(bulk.certificates)
        /\ \A d \in CertIds \ {c} : cert'[d] = cert[d]
        /\ \A j \in JobIds :
             job'[j] # job[j] => job'[j] = [pc |-> "scheduled", cert |-> c]

C12_BulkRetryOnlyFailed == [][C12_CallStep /\ C12_LoopStep]_vars

C12_Witness ==
  /\ bulk.kind = "retry" /\ BulkIdle
  /\ \E c, d \in bulk.ids :
       /\ cert[c].status = "issued"
       /\ certEvents[c].certificateStarted = 1
       /\ \A j \in JobIds : job[j].cert # c
       /\ cert[d].status = "pending"
       /\ certEvents[d].certificateCompleted = 1
       /\ \E j \in JobIds : job[j] = [pc |-> "scheduled", cert |-> d]

\* C13: republishCertificate goes on to its update only for a certificate it
\* read as issued; the update replaces verificationUrl, emits one
\* certificateRepublished event and changes no other field, no other
\* certificate and no batch; a call on a certificate in another status is
\* answered with an error, writes nothing and emits nothing.
C13_ReadStep ==
  republished'.calls = republished.calls + 1
  => /\ cert' = cert /\ certEvents' = certEvents /\ batch' = batch
     /\ IF republished'.pc = "update"
          THEN /\ cert[republished'.cert].status = "issued"
               /\ rejected' = rejected
          ELSE /\ republished'.pc = "idle"
               /\ "republishCertificate" \in rejected'

C13_UpdateStep ==
  (republished.pc = "update" /\ republished'.pc = "idle")
  => LET c == republished.cert
     IN /\ cert'[c] = [cert[c] EXCEPT !.verificationUrl = <<"id", now>>]
        /\ certEvents'[c] = [certEvents[c] EXCEPT
                               !.certificateRepublished = @ + 1]
        /\ \A d \in CertIds \ {c} :
             cert'[d] = cert[d] /\ certEvents'[d] = certEvents[d]
        /\ batch' = batch /\ events' = events /\ job' = job

C13_RepublishFrame == [][C13_ReadStep /\ C13_UpdateStep]_vars

C13_Witness ==
  \E c \in CertIds :
    /\ republished.pc = "idle"
    /\ certEvents[c].certificateRepublished = 1
    /\ cert[c].status = "issued"
    /\ cert[c].verificationUrl = <<"id", now>>
    /\ cert[c].issuedPdfPath # Undefined

\* C14: retry on a certificate that does not exist, bulk retry when no
\* listed certificate is failed and a start request for a batch that has an
\* active run are answered with an error, and change no certificate record,
\* no batch record, not the processing lock and no scheduled reprocessing.
C14_RejectedCallStep ==
  rejected' # rejected
  => /\ cert' = cert /\ batch' = batch /\ job' = job
     /\ processingBatches' = processingBatches

C14_StartOnActiveStep ==
  \A r \in RunIds :
    (/\ run[r].pc = "route"
     /\ run'[r].pc # "route"
     /\ \E q \in RunIds : ActiveRun(q) /\ run[q].batch = run[r].batch)
    => /\ run'[r].response = "400"
       /\ cert' = cert /\ batch' = batch /\ job' = job
       /\ processingBatches' = processingBatches

C14_RejectedCalls == [][C14_RejectedCallStep /\ C14_StartOnActiveStep]_vars

\* C15: every change of a batch's stored status is pending->processing,
\* processing->completed or processing->failed.
C15_AllowedChanges ==
  {<<"pending", "processing">>, <<"processing", "completed">>,
   <<"processing", "failed">>}

C15_BatchStatusChanges ==
  [][\A b \in BatchIds :
       (batch[b].status # "none" /\ batch'[b].status # batch[b].status)
       => <<batch[b].status, batch'[b].status>> \in C15_AllowedChanges]_vars

\* What a finished processZipFile call was given and what validateBatchFiles
\* returned to it.
Called(b) == upload[b].pc # "none"
RowsOf(b) == upload[b].zip.rows
PdfsOf(b) == PdfNames(ZipPdfsOf(upload[b].zip))
ResultOf(b) == upload[b].validationResults[1]

\* Every row has a certificate id and a filename.
CompleteRows(rows) ==
  /\ rows # <<>>
  /\ \A i \in DOMAIN rows : rows[i].certificateId # "" /\ rows[i].filename # ""

\* Row j repeats the certificate id or the filename of an earlier row.
Repeats(rows, j) ==
  \E i \in 1..(j - 1) :
    \/ rows[i].certificateId = rows[j].certificateId
    \/ rows[i].filename = rows[j].filename

NoDuplicates(rows) == \A j \in DOMAIN rows : ~Repeats(rows, j)

AllPdfsPresent(rows, pdfs) == \A i \in DOMAIN rows : rows[i].filename \in pdfs

\* C16: a manifest with the required columns, without a duplicated id or
\* filename, whose filenames all have a PDF in the ZIP, is valid and
\* validRecords = totalEntries, whatever other PDFs the ZIP holds.
C16_ValidManifestAccepted ==
  \A b \in BatchIds :
    (/\ Called(b)
     /\ CompleteRows(RowsOf(b)) /\ NoDuplicates(RowsOf(b))
     /\ AllPdfsPresent(RowsOf(b), PdfsOf(b)))
    => /\ ResultOf(b).isValid
       /\ ResultOf(b).validRecords = ResultOf(b).totalEntries

\* C17: the filename of a row without a PDF in the ZIP is in missingPdfs and
\* the result is not valid; a PDF of the ZIP no row names is in extraPdfs,
\* not in missingPdfs, and the result is valid when nothing else is wrong.
C17_MissingAndExtraPdfs ==
  \A b \in BatchIds :
    (Called(b) /\ CompleteRows(RowsOf(b)) /\ NoDuplicates(RowsOf(b)))
    => LET rows == RowsOf(b)
           named == {rows[i].filename : i \in DOMAIN rows}
           v == ResultOf(b)
       IN /\ \A f \in named \ PdfsOf(b) : f \in v.missingPdfs /\ ~v.isValid
          /\ \A f \in PdfsOf(b) \ named :
               f \in v.extraPdfs /\ f \notin v.missingPdfs
          /\ AllPdfsPresent(rows, PdfsOf(b)) => v.isValid

\* C18: when a certificate id or a filename is in more than one row, the
\* result is not valid, every row that repeats the id or the filename of an
\* earlier row is left out of totalEntries and has an error entry of its
\* own, and the other rows are counted.
C18_DuplicatesExcluded ==
  \A b \in BatchIds :
    (Called(b) /\ CompleteRows(RowsOf(b)) /\ ~NoDuplicates(RowsOf(b)))
    => LET rows == RowsOf(b)
           later == {j \in DOMAIN rows : Repeats(rows, j)}
           v == ResultOf(b)
       IN /\ ~v.isValid
          /\ v.totalEntries = Len(rows) - Cardinality(later)
          /\ v.errors >= Cardinality(later)

\* C20: an upload whose validation fails raises no error to the caller: a
\* Batch with status failed and the result of the validation is stored, and
\* no Certificate record is created.
C20_FailedValidationPersisted ==
  \A b \in BatchIds :
    (Called(b) /\ ~ResultOf(b).isValid)
    => /\ upload[b].pc # "threw"
       /\ batch[b].status = "failed"
       /\ ~batch[b].isValid
       /\ batch[b].totalCertificates = ResultOf(b).totalEntries
       /\ CertsOf(b) = {}

\* C21: when processZipFile has returned for an upload that passed the
\* validation, the batch is pending and has exactly one Certificate record
\* per accepted row: as many records as totalEntries, all pending, carrying
\* the id and the filename of their row, the ids pairwise distinct.
C21_RecordPerAcceptedRow ==
  \A b \in BatchIds :
    (upload[b].pc = "done" /\ ResultOf(b).isValid)
    => /\ batch[b].status = "pending"
       /\ Cardinality(CertsOf(b)) = ResultOf(b).totalEntries
       /\ \A c \in CertsOf(b) :
            /\ cert[c].status = "pending"
            /\ cert[c].certificateId = RowsOf(b)[c[2]].certificateId
            /\ cert[c].filename = RowsOf(b)[c[2]].filename
       /\ \A c, d \in CertsOf(b) :
            c # d => cert[c].certificateId # cert[d].certificateId

C21_Witness ==
  \E b \in BatchIds :
    /\ upload[b].pc = "done" /\ ResultOf(b).isValid
    /\ ResultOf(b).totalEntries = 2
    /\ Cardinality(CertsOf(b)) = 2

\* The certificates a run has emitted certificateStarted for, before entry i
\* of its events, without a certificateCompleted after it.
OpenBefore(log, i) ==
  {j \in 1..(i - 1) :
     /\ log[j].type = "certificateStarted"
     /\ ~\E k \in (j + 1)..(i - 1) :
           log[k].type = "certificateCompleted" /\ log[k].id = log[j].id}

C22_Order ==
  \A r \in RunIds :
    LET log == run[r].emitted
        n == Len(log)
    IN /\ \A i \in 1..n :
            log[i].type \in {"certificateStarted", "certificateCompleted"}
            => log[1].type = "batchStarted"
       /\ \A i \in 2..n : log[i].type # "batchStarted"
       /\ \A i \in 1..n :
            log[i].type = "certificateStarted" => OpenBefore(log, i) = {}
       /\ \A i \in 1..n :
            log[i].type = "batchCompleted"
            => i = n /\ OpenBefore(log, i) = {}
       /\ Cardinality(OpenBefore(log, n + 1)) <= 1

C22_StartedStep ==
  \A r \in RunIds :
    (run[r].pc = "find" /\ run'[r].pc = "loop")
    => LET b == run[r].batch
           e == run'[r].emitted[Len(run'[r].emitted)]
       IN /\ e.type = "batchStarted"
          /\ e.count = Cardinality({c \in CertsOf(b) :
                                     cert[c].status = "pending"})

\* C22: within one drain run batchStarted, carrying the number of pending
\* certificates, comes before every certificate event of the run; each
\* certificateStarted comes after the certificateCompleted of the previous
\* certificate, so the run stamps at most one certificate at a time; and
\* batchCompleted comes after the last certificateCompleted.
C22_RunEventsInOrder == []C22_Order /\ [][C22_StartedStep]_vars

C22_Witness ==
  \E r \in RunIds :
    /\ Len(run[r].emitted) = 6
    /\ run[r].emitted[1].count = 2
    /\ run[r].emitted[4].type = "certificateStarted"
    /\ run[r].emitted[6].type = "batchCompleted"

\* C23: a manifest whose header cells are `certificate_id` and `file_name`
\* passes the column discovery and its rows are extracted as those of the
\* same manifest under `certificateId` and `filename`.
C23_SnakeCaseHeadersAccepted ==
  \A b \in BatchIds :
    (Called(b) /\ upload[b].zip.columns = SnakeColumns)
    => ResultOf(b) = validateBatchFiles(
                       [columns |-> CamelColumns, rows |-> RowsOf(b)],
                       PdfsOf(b))

C24_FailedStep ==
  \A c \in CertIds \ Reprocessed :
    cert[c].status = "failed" => cert'[c].status = "failed"

\* C24: a failed certificate on which no retry, reissue, bulk retry or bulk
\* reissue is invoked stays failed, whatever start and restart requests its
\* batch gets and whatever is done to the other certificates.
C24_FailedStaysFailed == [][C24_FailedStep]_vars

\* A run started again after the batch failed found a failed certificate
\* and nothing to do.
C24_Witness ==
  \E r, s \in RunIds :
    /\ r # s /\ run[r].batch = "b1" /\ run[s].batch = "b1"
    /\ run[r].pc = "failed"
    /\ run[s].pc \in {"loop", "completed"}
    /\ cert[<<"b1", 1>>].status = "failed"

\* The process ended while a run of batch b was active and had marked the
\* batch as processing.
Stuck(b) ==
  /\ batch[b].status = "processing"
  /\ b \notin processingBatches
  /\ \E s \in RunIds : run[s].pc = "lost" /\ run[s].batch = b

C25_TerminationStep ==
  (\E r \in RunIds : run[r].pc # "lost" /\ run'[r].pc = "lost")
  => /\ batch' = batch
     /\ processingBatches' = {}
     /\ \A b \in processingBatches :
          batch[b].status = "processing" => Stuck(b)'

C25_StuckStep ==
  \A b \in BatchIds :
    Stuck(b)
    => /\ Stuck(b)'
       /\ \A r \in RunIds :
            (run[r].pc = "route" /\ run[r].batch = b /\ run'[r].pc # "route")
            => /\ run'[r].pc = "rejected_processing"
               /\ run'[r].response = "400"

\* C25: when the process ends while a drain run is active, the stored
\* status of the batch stays processing, and every start-issuance request
\* for the batch after that is rejected as already being processed.
C25_StuckAfterTermination ==
  [][C25_TerminationStep /\ C25_StuckStep]_vars

C25_Witness ==
  \E b \in BatchIds, r \in RunIds :
    /\ Stuck(b)
    /\ run[r].batch = b /\ run[r].pc = "rejected_processing"

\* C26: once deleteProject has returned true no Batch record and no
\* Certificate record of the project exists, whatever upload, drain run or
\* scheduled retry the deletion ran beside.
C26_NothingLeftAfterDelete ==
  deletion = "deleted"
  => /\ \A b \in BatchIds : batch[b].status = "none"
     /\ \A c \in CertIds : cert[c].status = "none"

\* C27: two uploads to one project that overlap in time do not interfere:
\* each gets the validation result of its own ZIP, and a valid one returns
\* with the Certificate records of its own manifest.
C27_UploadsIndependent ==
  \A b \in BatchIds :
    Called(b)
    => /\ ResultOf(b) = validateBatchFiles(ManifestOf(upload[b].zip), PdfsOf(b))
       /\ ResultOf(b).isValid => upload[b].pc # "threw"
       /\ (upload[b].pc = "done" /\ ResultOf(b).isValid)
          => \A c \in CertsOfBatch(b) :
               IF c[2] \in DOMAIN RowsOf(b)
                 THEN /\ cert[c].certificateId = RowsOf(b)[c[2]].certificateId
                      /\ cert[c].filename = RowsOf(b)[c[2]].filename
                 ELSE cert[c].status = "none"

C28_CompletedStep ==
  \A b \in BatchIds :
    (batch[b].status # "completed" /\ batch'[b].status = "completed")
    => \A c \in CertIds :
         (c[1] = b /\ cert'[c].status # "none") => cert'[c].status \in Terminal

\* C28: when the stored status of a batch becomes completed, every
\* certificate of the batch is issued or failed, also when retry or reissue
\* calls run beside the drain run.
C28_CompletedMeansAllTerminal == [][C28_CompletedStep]_vars

\* C29: while the process runs, a batch whose stored status is processing
\* has an active drain run: its id is in processingBatches.  The status is
\* never left at processing when the run has ended, also when the record
\* store fails.
C29_ProcessingMeansActiveRun ==
  \A b \in BatchIds :
    batch[b].status = "processing"
    => /\ b \in processingBatches
       /\ \E r \in RunIds : run[r].batch = b /\ ActiveRun(r)

\* C30: an issued certificate has no errorMessage and has its issuedPdfPath,
\* qrCodeData and verificationUrl, also when it was issued by a retry or a
\* reissue after it had failed, the calls following each other closely.
C30_IssuedIsClean ==
  \A c \in CertIds :
    cert[c].status = "issued"
    => /\ cert[c].errorMessage = Undefined
       /\ cert[c].issuedPdfPath # Undefined
       /\ cert[c].qrCodeData # Undefined
       /\ cert[c].verificationUrl # Undefined

====
